---- MODULE Spec2Model ----
(***************************************************************************)
(* Model of package auth (src/auth/auth.go): the selection of an           *)
(* Authorizer from a Config (Config.NewAuthorizer), the three constructors *)
(* it dispatches to and the pure derivations of token URL, scopes and      *)
(* resource.                                                               *)
(*                                                                         *)
(* Go strings that the code inspects (TenantID, ClientID, ClientCertPath,  *)
(* ClientSecret, ClientCertPassword) are sequences of one-character        *)
(* strings, so that strings.TrimSpace is computed.  Formatted text is a    *)
(* TLA+ string built by concatenation, as fmt.Sprintf builds it.  An       *)
(* error made by fmt.Errorf keeps its format, the string operands and the  *)
(* wrapped error, so that what a message carries can be read back.         *)
(***************************************************************************)
EXTENDS Integers, Sequences, FiniteSets, TLC

VARIABLES
    op,      \* the exported function that was called, "none" before the call
    cfg,     \* the Config (the arguments of a direct constructor call are held in its fields)
    api,     \* the Api target
    world,   \* what the collaborators answer: file system, PKCS12 decoder, Azure CLI, token source
    ret,     \* the returned pair [a, err]
    calls    \* the collaborators invoked by the call, in order

vars == <<op, cfg, api, world, ret, calls>>

----------------------------------------------------------------------------
(* Bounds *)

MaxLen == 2

----------------------------------------------------------------------------
(* Values *)

TokenVersion2 == 0
TokenVersion1 == 1

MsGraph == 0
AadGraph == 1

AuthTypeAssertion == "AuthTypeAssertion"
AuthTypeSecret == "AuthTypeSecret"
AuthTypeAzureCli == "AzureCli"

Nil == [nil |-> TRUE]

Global ==
    [AzureADEndpoint |-> "https://login.example",
     MsGraph |-> [Endpoint |-> "https://graph.example"],
     AadGraph |-> [Endpoint |-> "https://aadgraph.example"]]

China ==
    [AzureADEndpoint |-> "https://login.example.cn",
     MsGraph |-> [Endpoint |-> "https://graph.example.cn"],
     AadGraph |-> [Endpoint |-> "https://aadgraph.example.cn"]]

ZeroConfig ==
    [Environment |-> Global, Version |-> TokenVersion2,
     TenantID |-> <<>>, ClientID |-> <<>>,
     EnableAzureCliToken |-> FALSE,
     EnableClientCertAuth |-> FALSE, ClientCertPath |-> <<>>, ClientCertPassword |-> <<>>,
     EnableClientSecretAuth |-> FALSE, ClientSecret |-> <<>>]

ZeroMicrosoftConfig ==
    [ClientID |-> <<>>, ClientSecret |-> <<>>, PrivateKey |-> Nil, Certificate |-> Nil,
     Scopes |-> <<>>, TokenURL |-> "", Resource |-> ""]

----------------------------------------------------------------------------
(* Strings *)

RECURSIVE Str(_)
Str(s) == IF s = <<>> THEN "" ELSE Head(s) \o Str(Tail(s))

RECURSIVE TrimLeft(_)
TrimLeft(s) == IF s # <<>> /\ Head(s) = " " THEN TrimLeft(Tail(s)) ELSE s

RECURSIVE TrimRight(_)
TrimRight(s) ==
    IF s # <<>> /\ s[Len(s)] = " " THEN TrimRight(SubSeq(s, 1, Len(s) - 1)) ELSE s

TrimSpace(s) == TrimRight(TrimLeft(s))

Errorf(format, args, cause) == [format |-> format, args |-> args, cause |-> cause]

Call(fn, args) == [fn |-> fn, args |-> args]

----------------------------------------------------------------------------
(* Collaborators.  world.file is what lies at the certificate path,        *)
(* world.cli whether the Azure CLI session is usable, world.nilSource the  *)
(* adapters the token source fails to produce.                             *)

ReadFile(pfxPath, w) ==
    IF w.file = "unreadable"
    THEN [pfx |-> Nil,
          err |-> Errorf("open %s: no such file or directory", <<pfxPath>>, Nil)]
    ELSE [pfx |-> [bytes |-> w.file], err |-> Nil]

Decode(pfx, pfxPass, w) ==
    IF pfx.bytes = "undecodable"
    THEN [key |-> Nil, cert |-> Nil,
          err |-> Errorf("pkcs12: decryption password incorrect", <<>>, Nil)]
    ELSE [key |-> [type |-> pfx.bytes], cert |-> [Raw |-> "certificate DER"], err |-> Nil]

MarshalPKCS1PrivateKey(priv) == [der |-> "PKCS1", of |-> priv.type]

TokenSource(conf, authType, w) ==
    IF authType \in w.nilSource THEN Nil ELSE [authType |-> authType, conf |-> conf]

NewAzureCliConfig(a, tenantId, w) ==
    IF w.cli = "unavailable"
    THEN [conf |-> Nil, err |-> Errorf("could not parse Azure CLI version", <<>>, Nil)]
    ELSE [conf |-> [Api |-> a, TenantID |-> tenantId], err |-> Nil]

----------------------------------------------------------------------------
(* Endpoint, scope and resource derivation *)

\* Mutant of endpoint: the tenant is trimmed before the test for "common".
endpointTrimmed(adEndpoint, tenant, version) ==
    LET t == IF TrimSpace(tenant) = <<>> THEN "common" ELSE Str(tenant)
        e1 == adEndpoint \o "/" \o t \o "/oauth2"
        e2 == IF version = TokenVersion2 THEN e1 \o "/" \o "v2.0" ELSE e1
    IN  e2 \o "/token"

endpoint(adEndpoint, tenant, version) ==
    LET t == IF tenant = <<>> THEN "common" ELSE Str(tenant)
        e1 == adEndpoint \o "/" \o t \o "/oauth2"
        e2 == IF version = TokenVersion2 THEN e1 \o "/" \o "v2.0" ELSE e1
    IN  e2 \o "/token"

\* Mutant of scopes: both cases read the MsGraph endpoint.
scopesMsGraphOnly(env, a) ==
    CASE a = MsGraph -> <<env.MsGraph.Endpoint \o "/.default">>
      [] a = AadGraph -> <<env.MsGraph.Endpoint \o "/.default">>
      [] OTHER -> <<>>

scopes(env, a) ==
    CASE a = MsGraph -> <<env.MsGraph.Endpoint \o "/.default">>
      [] a = AadGraph -> <<env.AadGraph.Endpoint \o "/.default">>
      [] OTHER -> <<>>

\* Mutant of resource: the trailing slash is left out.
resourceNoSlash(env, a) ==
    CASE a = MsGraph -> env.MsGraph.Endpoint
      [] a = AadGraph -> env.AadGraph.Endpoint
      [] OTHER -> ""

resource(env, a) ==
    CASE a = MsGraph -> env.MsGraph.Endpoint \o "/"
      [] a = AadGraph -> env.AadGraph.Endpoint \o "/"
      [] OTHER -> ""

----------------------------------------------------------------------------
(* Constructors.  Each yields [a, err, calls]. *)

NewAzureCliAuthorizer(a, tenantId, w) ==
    LET r == NewAzureCliConfig(a, tenantId, w)
        c1 == <<Call("NewAzureCliConfig", <<a, tenantId>>)>>
    IN  IF r.err # Nil
        THEN [a |-> Nil, err |-> r.err, calls |-> c1]
        ELSE [a |-> TokenSource(r.conf, AuthTypeAzureCli, w), err |-> Nil,
              calls |-> Append(c1, Call("TokenSource", <<AuthTypeAzureCli>>))]

NewClientCertificateAuthorizer(environment, a, tokenVersion, tenantId, clientId, pfxPath, pfxPass, w) ==
    LET rd == ReadFile(pfxPath, w)
        c1 == <<Call("ioutil.ReadFile", <<pfxPath>>)>>
        dec == Decode(rd.pfx, pfxPass, w)
        c2 == Append(c1, Call("pkcs12.Decode", <<pfxPass>>))
        conf0 == [ZeroMicrosoftConfig EXCEPT
                    !.ClientID = clientId,
                    !.PrivateKey = MarshalPKCS1PrivateKey(dec.key),
                    !.Certificate = dec.cert.Raw,
                    !.Scopes = scopes(environment, a),
                    !.TokenURL = endpoint(environment.AzureADEndpoint, tenantId, tokenVersion)]
        conf == IF tokenVersion = TokenVersion1
                THEN [conf0 EXCEPT !.Resource = resource(environment, a)]
                ELSE conf0
    IN  IF rd.err # Nil
        THEN [a |-> Nil,
              err |-> Errorf("could not read pkcs12 store at %q: %s", <<pfxPath>>, rd.err),
              calls |-> c1]
        ELSE IF dec.err # Nil
        THEN [a |-> Nil,
              err |-> Errorf("could not decode pkcs12 credential store: %s", <<>>, dec.err),
              calls |-> c2]
        ELSE IF dec.key.type # "rsa"
        THEN [a |-> Nil,
              err |-> Errorf("unsupported non-rsa key was found in pkcs12 store %q", <<pfxPath>>, Nil),
              calls |-> c2]
        ELSE [a |-> TokenSource(conf, AuthTypeAssertion, w), err |-> Nil,
              calls |-> Append(c2, Call("TokenSource", <<AuthTypeAssertion>>))]

NewClientSecretAuthorizer(environment, a, tokenVersion, tenantId, clientId, clientSecret, w) ==
    LET conf0 == [ZeroMicrosoftConfig EXCEPT
                    !.ClientID = clientId,
                    !.ClientSecret = clientSecret,
                    !.Scopes = scopes(environment, a),
                    !.TokenURL = endpoint(environment.AzureADEndpoint, tenantId, tokenVersion)]
        conf == IF tokenVersion = TokenVersion1
                THEN [conf0 EXCEPT !.Resource = resource(environment, a)]
                ELSE conf0
    IN  [a |-> TokenSource(conf, AuthTypeSecret, w), err |-> Nil,
         calls |-> <<Call("TokenSource", <<AuthTypeSecret>>)>>]

----------------------------------------------------------------------------
(* Config.NewAuthorizer: the three blocks in their order.  `done` is the   *)
(* log of the blocks above.                                                *)

NoAuthorizer(done) ==
    [a |-> Nil,
     err |-> Errorf("no Authorizer could be configured, please check your configuration", <<>>, Nil),
     calls |-> done]

\* Mutant of AzureCliBlock: the Azure CLI is tried whether enabled or not.
AzureCliBlockAlways(c, a, w, done) ==
    LET r == NewAzureCliAuthorizer(a, c.TenantID, w)
        log == done \o <<Call("NewAzureCliAuthorizer", <<a, c.TenantID>>)>> \o r.calls
    IN  IF r.err # Nil
        THEN [a |-> Nil,
              err |-> Errorf("could not configure AzureCli Authorizer: %s", <<>>, r.err),
              calls |-> log]
        ELSE IF r.a # Nil
        THEN [a |-> r.a, err |-> Nil, calls |-> log]
        ELSE NoAuthorizer(log)

\* Mutant of AzureCliBlock: the Azure CLI needs a tenant, as the other methods do.
AzureCliBlockNeedsTenant(c, a, w, done) ==
    IF c.EnableAzureCliToken /\ TrimSpace(c.TenantID) # <<>>
    THEN LET r == NewAzureCliAuthorizer(a, c.TenantID, w)
             log == done \o <<Call("NewAzureCliAuthorizer", <<a, c.TenantID>>)>> \o r.calls
         IN  IF r.err # Nil
             THEN [a |-> Nil,
                   err |-> Errorf("could not configure AzureCli Authorizer: %s", <<>>, r.err),
                   calls |-> log]
             ELSE IF r.a # Nil
             THEN [a |-> r.a, err |-> Nil, calls |-> log]
             ELSE NoAuthorizer(log)
    ELSE NoAuthorizer(done)

\* Mutant of AzureCliBlock: the result is returned without the test a != nil.
AzureCliBlockNoNilTest(c, a, w, done) ==
    IF c.EnableAzureCliToken
    THEN LET r == NewAzureCliAuthorizer(a, c.TenantID, w)
             log == done \o <<Call("NewAzureCliAuthorizer", <<a, c.TenantID>>)>> \o r.calls
         IN  IF r.err # Nil
             THEN [a |-> Nil,
                   err |-> Errorf("could not configure AzureCli Authorizer: %s", <<>>, r.err),
                   calls |-> log]
             ELSE [a |-> r.a, err |-> Nil, calls |-> log]
    ELSE NoAuthorizer(done)

AzureCliBlock(c, a, w, done) ==
    IF c.EnableAzureCliToken
    THEN LET r == NewAzureCliAuthorizer(a, c.TenantID, w)
             log == done \o <<Call("NewAzureCliAuthorizer", <<a, c.TenantID>>)>> \o r.calls
         IN  IF r.err # Nil
             THEN [a |-> Nil,
                   err |-> Errorf("could not configure AzureCli Authorizer: %s", <<>>, r.err),
                   calls |-> log]
             ELSE IF r.a # Nil
             THEN [a |-> r.a, err |-> Nil, calls |-> log]
             ELSE NoAuthorizer(log)
    ELSE NoAuthorizer(done)

ClientSecretBlock(c, a, w, done) ==
    IF /\ c.EnableClientSecretAuth
       /\ TrimSpace(c.TenantID) # <<>>
       /\ TrimSpace(c.ClientID) # <<>>
       /\ TrimSpace(c.ClientSecret) # <<>>
    THEN LET r == NewClientSecretAuthorizer(c.Environment, a, c.Version, c.TenantID,
                                            c.ClientID, c.ClientSecret, w)
             log == done \o <<Call("NewClientSecretAuthorizer",
                                   <<a, c.Version, c.TenantID, c.ClientID, c.ClientSecret>>)>>
                         \o r.calls
         IN  IF r.err # Nil
             THEN [a |-> Nil,
                   err |-> Errorf("could not configure ClientCertificate Authorizer: %s", <<>>, r.err),
                   calls |-> log]
             ELSE IF r.a # Nil
             THEN [a |-> r.a, err |-> Nil, calls |-> log]
             ELSE AzureCliBlock(c, a, w, log)
    ELSE AzureCliBlock(c, a, w, done)

\* Mutant of NewAuthorizer: the client secret block comes first.
NewAuthorizerSecretFirst(c, a, w) ==
    IF /\ c.EnableClientSecretAuth
       /\ TrimSpace(c.TenantID) # <<>>
       /\ TrimSpace(c.ClientID) # <<>>
       /\ TrimSpace(c.ClientSecret) # <<>>
    THEN ClientSecretBlock(c, a, w, <<>>)
    ELSE IF /\ c.EnableClientCertAuth
            /\ TrimSpace(c.TenantID) # <<>>
            /\ TrimSpace(c.ClientID) # <<>>
            /\ TrimSpace(c.ClientCertPath) # <<>>
    THEN LET r == NewClientCertificateAuthorizer(c.Environment, a, c.Version, c.TenantID,
                                                 c.ClientID, c.ClientCertPath,
                                                 c.ClientCertPassword, w)
             log == <<Call("NewClientCertificateAuthorizer",
                           <<a, c.Version, c.TenantID, c.ClientID, c.ClientCertPath,
                             c.ClientCertPassword>>)>> \o r.calls
         IN  IF r.err # Nil
             THEN [a |-> Nil,
                   err |-> Errorf("could not configure ClientCertificate Authorizer: %s", <<>>, r.err),
                   calls |-> log]
             ELSE IF r.a # Nil
             THEN [a |-> r.a, err |-> Nil, calls |-> log]
             ELSE AzureCliBlock(c, a, w, log)
    ELSE AzureCliBlock(c, a, w, <<>>)

\* Mutant of NewAuthorizer: the certificate path is tested without TrimSpace.
NewAuthorizerPathUntrimmed(c, a, w) ==
    IF /\ c.EnableClientCertAuth
       /\ TrimSpace(c.TenantID) # <<>>
       /\ TrimSpace(c.ClientID) # <<>>
       /\ c.ClientCertPath # <<>>
    THEN LET r == NewClientCertificateAuthorizer(c.Environment, a, c.Version, c.TenantID,
                                                 c.ClientID, c.ClientCertPath,
                                                 c.ClientCertPassword, w)
             log == <<Call("NewClientCertificateAuthorizer",
                           <<a, c.Version, c.TenantID, c.ClientID, c.ClientCertPath,
                             c.ClientCertPassword>>)>> \o r.calls
         IN  IF r.err # Nil
             THEN [a |-> Nil,
                   err |-> Errorf("could not configure ClientCertificate Authorizer: %s", <<>>, r.err),
                   calls |-> log]
             ELSE IF r.a # Nil
             THEN [a |-> r.a, err |-> Nil, calls |-> log]
             ELSE ClientSecretBlock(c, a, w, log)
    ELSE ClientSecretBlock(c, a, w, <<>>)

\* Mutant of NewAuthorizer: a failed certificate construction falls through.
NewAuthorizerFallsThrough(c, a, w) ==
    IF /\ c.EnableClientCertAuth
       /\ TrimSpace(c.TenantID) # <<>>
       /\ TrimSpace(c.ClientID) # <<>>
       /\ TrimSpace(c.ClientCertPath) # <<>>
    THEN LET r == NewClientCertificateAuthorizer(c.Environment, a, c.Version, c.TenantID,
                                                 c.ClientID, c.ClientCertPath,
                                                 c.ClientCertPassword, w)
             log == <<Call("NewClientCertificateAuthorizer",
                           <<a, c.Version, c.TenantID, c.ClientID, c.ClientCertPath,
                             c.ClientCertPassword>>)>> \o r.calls
         IN  IF r.err = Nil /\ r.a # Nil
             THEN [a |-> r.a, err |-> Nil, calls |-> log]
             ELSE ClientSecretBlock(c, a, w, log)
    ELSE ClientSecretBlock(c, a, w, <<>>)

NewAuthorizer(c, a, w) ==
    IF /\ c.EnableClientCertAuth
       /\ TrimSpace(c.TenantID) # <<>>
       /\ TrimSpace(c.ClientID) # <<>>
       /\ TrimSpace(c.ClientCertPath) # <<>>
    THEN LET r == NewClientCertificateAuthorizer(c.Environment, a, c.Version, c.TenantID,
                                                 c.ClientID, c.ClientCertPath,
                                                 c.ClientCertPassword, w)
             log == <<Call("NewClientCertificateAuthorizer",
                           <<a, c.Version, c.TenantID, c.ClientID, c.ClientCertPath,
                             c.ClientCertPassword>>)>> \o r.calls
         IN  IF r.err # Nil
             THEN [a |-> Nil,
                   err |-> Errorf("could not configure ClientCertificate Authorizer: %s", <<>>, r.err),
                   calls |-> log]
             ELSE IF r.a # Nil
             THEN [a |-> r.a, err |-> Nil, calls |-> log]
             ELSE ClientSecretBlock(c, a, w, log)
    ELSE ClientSecretBlock(c, a, w, <<>>)

----------------------------------------------------------------------------
(* Inputs *)

Strings(alphabet, n) == UNION {[1..k -> alphabet] : k \in 0..n}

TenantIDs == Strings({" ", "t"}, MaxLen)
ClientIDs == {<<>>, <<" ">>, <<"c">>}
CertPaths == {<<>>, <<" ">>, <<"p">>}
CertPasswords == {<<>>, <<"w">>}
ClientSecrets == {<<>>, <<" ">>, <<"s">>}
Versions == {TokenVersion2, TokenVersion1}
Apis == {MsGraph, AadGraph}
Environments == {Global, China}
AuthTypes == {AuthTypeAssertion, AuthTypeSecret, AuthTypeAzureCli}

Configs ==
    [Environment : Environments, Version : Versions,
     TenantID : TenantIDs, ClientID : ClientIDs,
     EnableAzureCliToken : BOOLEAN,
     EnableClientCertAuth : BOOLEAN, ClientCertPath : CertPaths,
     ClientCertPassword : CertPasswords,
     EnableClientSecretAuth : BOOLEAN, ClientSecret : ClientSecrets]

Files == {"unreadable", "undecodable", "ecdsa", "rsa"}
Clis == {"unavailable", "available"}

\* The token source produces every adapter (spec section 4.4).
Worlds == [file : Files, cli : Clis, nilSource : {{}}]

\* Every outcome of a constructor, a nil Authorizer without an error included.
AnyWorlds == [file : Files, cli : Clis, nilSource : SUBSET AuthTypes]

----------------------------------------------------------------------------
(* The calls *)

Init ==
    /\ op = "none"
    /\ cfg = ZeroConfig
    /\ api = MsGraph
    /\ world = [file |-> "unreadable", cli |-> "unavailable", nilSource |-> {}]
    /\ ret = [a |-> Nil, err |-> Nil]
    /\ calls = <<>>

Returns(r) ==
    /\ ret' = [a |-> r.a, err |-> r.err]
    /\ calls' = r.calls

CallNewAuthorizerIn(W) ==
    /\ op = "none"
    /\ \E c \in Configs, a \in Apis, w \in W :
         /\ op' = "NewAuthorizer"
         /\ cfg' = c
         /\ api' = a
         /\ world' = w
         /\ Returns(NewAuthorizer(c, a, w))

CallNewClientCertificateAuthorizerIn(W) ==
    /\ op = "none"
    /\ \E e \in Environments, a \in Apis, v \in Versions, t \in TenantIDs, id \in ClientIDs,
          p \in CertPaths, pw \in CertPasswords, w \in W :
         /\ op' = "NewClientCertificateAuthorizer"
         /\ cfg' = [ZeroConfig EXCEPT !.Environment = e, !.Version = v, !.TenantID = t,
                                      !.ClientID = id, !.ClientCertPath = p,
                                      !.ClientCertPassword = pw]
         /\ api' = a
         /\ world' = w
         /\ Returns(NewClientCertificateAuthorizer(e, a, v, t, id, p, pw, w))

CallNewClientSecretAuthorizerIn(W) ==
    /\ op = "none"
    /\ \E e \in Environments, a \in Apis, v \in Versions, t \in TenantIDs, id \in ClientIDs,
          s \in ClientSecrets, w \in W :
         /\ op' = "NewClientSecretAuthorizer"
         /\ cfg' = [ZeroConfig EXCEPT !.Environment = e, !.Version = v, !.TenantID = t,
                                      !.ClientID = id, !.ClientSecret = s]
         /\ api' = a
         /\ world' = w
         /\ Returns(NewClientSecretAuthorizer(e, a, v, t, id, s, w))

CallNewAzureCliAuthorizerIn(W) ==
    /\ op = "none"
    /\ \E a \in Apis, t \in TenantIDs, w \in W :
         /\ op' = "NewAzureCliAuthorizer"
         /\ cfg' = [ZeroConfig EXCEPT !.TenantID = t]
         /\ api' = a
         /\ world' = w
         /\ Returns(NewAzureCliAuthorizer(a, t, w))

CallNewAuthorizer == CallNewAuthorizerIn(Worlds)
CallNewClientCertificateAuthorizer == CallNewClientCertificateAuthorizerIn(Worlds)
CallNewClientSecretAuthorizer == CallNewClientSecretAuthorizerIn(Worlds)
CallNewAzureCliAuthorizer == CallNewAzureCliAuthorizerIn(Worlds)

Next ==
    \/ CallNewAuthorizer
    \/ CallNewClientCertificateAuthorizer
    \/ CallNewClientSecretAuthorizer
    \/ CallNewAzureCliAuthorizer

Spec == Init /\ [][Next]_vars

CallNewAuthorizerAny == CallNewAuthorizerIn(AnyWorlds)
CallNewClientCertificateAuthorizerAny == CallNewClientCertificateAuthorizerIn(AnyWorlds)
CallNewClientSecretAuthorizerAny == CallNewClientSecretAuthorizerIn(AnyWorlds)
CallNewAzureCliAuthorizerAny == CallNewAzureCliAuthorizerIn(AnyWorlds)

NextAny ==
    \/ CallNewAuthorizerAny
    \/ CallNewClientCertificateAuthorizerAny
    \/ CallNewClientSecretAuthorizerAny
    \/ CallNewAzureCliAuthorizerAny

SpecAny == Init /\ [][NextAny]_vars

----------------------------------------------------------------------------
(* What the claims speak of, stated on the inputs and the observed call.   *)

Blank(s) == \A i \in 1..Len(s) : s[i] = " "

CertSpecified(c) ==
    /\ c.EnableClientCertAuth
    /\ ~Blank(c.TenantID) /\ ~Blank(c.ClientID) /\ ~Blank(c.ClientCertPath)

SecretSpecified(c) ==
    /\ c.EnableClientSecretAuth
    /\ ~Blank(c.TenantID) /\ ~Blank(c.ClientID) /\ ~Blank(c.ClientSecret)

Invoked(fn) == \E i \in 1..Len(calls) : calls[i].fn = fn

ApiEndpoint(env, a) == IF a = MsGraph THEN env.MsGraph.Endpoint ELSE env.AadGraph.Endpoint

Range(s) == {s[i] : i \in 1..Len(s)}

RECURSIVE Carries(_, _)
Carries(e, v) == e # Nil /\ (v \in Range(e.args) \/ Carries(e.cause, v))

CertFailureFormats ==
    {"could not read pkcs12 store at %q: %s",
     "could not decode pkcs12 credential store: %s",
     "unsupported non-rsa key was found in pkcs12 store %q"}

Format(e) == IF e = Nil THEN "" ELSE e.format

Outcome(r) == [ret |-> [a |-> r.a, err |-> r.err], calls |-> r.calls]

SecretOrCliSettings ==
    {[secretOn |-> b1, secret |-> s, cliOn |-> b2, cli |-> k] :
        b1 \in BOOLEAN, s \in ClientSecrets, b2 \in BOOLEAN, k \in Clis}

AdapterReturned ==
    /\ op \in {"NewAuthorizer", "NewClientCertificateAuthorizer", "NewClientSecretAuthorizer"}
    /\ ret.a # Nil
    /\ ret.a.authType \in {AuthTypeAssertion, AuthTypeSecret}

V2Suffix == IF cfg.Version = TokenVersion2 THEN "/v2.0" ELSE ""

----------------------------------------------------------------------------
(* C1: when EnableClientCertAuth is set and TenantID, ClientID and         *)
(* ClientCertPath are non-blank, NewAuthorizer takes the certificate       *)
(* method: neither the secret nor the Azure CLI constructor is invoked,    *)
(* the result is the certificate adapter or the certificate constructor's  *)
(* error, and no value of EnableClientSecretAuth, ClientSecret,            *)
(* EnableAzureCliToken or of the Azure CLI's answer changes it.            *)
C1_CertificatePrecedence ==
    (op = "NewAuthorizer" /\ CertSpecified(cfg)) =>
        /\ calls # <<>> /\ calls[1].fn = "NewClientCertificateAuthorizer"
        /\ ~Invoked("NewClientSecretAuthorizer")
        /\ ~Invoked("NewAzureCliAuthorizer")
        /\ IF world.file = "rsa"
           THEN ret.err = Nil /\ ret.a # Nil /\ ret.a.authType = AuthTypeAssertion
           ELSE /\ ret.a = Nil /\ ret.err # Nil
                /\ ret.err.format = "could not configure ClientCertificate Authorizer: %s"
                /\ Format(ret.err.cause) \in CertFailureFormats
        /\ \A x \in SecretOrCliSettings :
              Outcome(NewAuthorizer([cfg EXCEPT !.EnableClientSecretAuth = x.secretOn,
                                                !.ClientSecret = x.secret,
                                                !.EnableAzureCliToken = x.cliOn],
                                    api, [world EXCEPT !.cli = x.cli]))
                = [ret |-> ret, calls |-> calls]

C1_Witness ==
    /\ op = "NewAuthorizer" /\ CertSpecified(cfg)
    /\ SecretSpecified(cfg) /\ cfg.EnableAzureCliToken /\ world.cli = "available"
    /\ ret.a # Nil /\ ret.a.authType = AuthTypeAssertion

(* C2: when EnableClientCertAuth is set but one of TenantID, ClientID,     *)
(* ClientCertPath is empty or whitespace-only, NewAuthorizer attempts no   *)
(* certificate construction (no file read, no decode) and returns what it  *)
(* returns for the same Config with EnableClientCertAuth false.            *)
C2_BlankCertFieldSkips ==
    ( /\ op = "NewAuthorizer" /\ cfg.EnableClientCertAuth
      /\ (Blank(cfg.TenantID) \/ Blank(cfg.ClientID) \/ Blank(cfg.ClientCertPath)) ) =>
        /\ ~Invoked("NewClientCertificateAuthorizer")
        /\ ~Invoked("ioutil.ReadFile")
        /\ ~Invoked("pkcs12.Decode")
        /\ Outcome(NewAuthorizer([cfg EXCEPT !.EnableClientCertAuth = FALSE], api, world))
             = [ret |-> ret, calls |-> calls]
        /\ SecretSpecified(cfg) => (calls # <<>> /\ calls[1].fn = "NewClientSecretAuthorizer")
        /\ (~SecretSpecified(cfg) /\ cfg.EnableAzureCliToken) =>
              (calls # <<>> /\ calls[1].fn = "NewAzureCliAuthorizer")

C2_Witness ==
    /\ op = "NewAuthorizer" /\ cfg.EnableClientCertAuth
    /\ cfg.ClientCertPath = <<" ">> /\ SecretSpecified(cfg)
    /\ ret.a # Nil /\ ret.a.authType = AuthTypeSecret

(* C3: when the construction of the selected method fails (bundle          *)
(* unreadable, PKCS12 decode failure, non-RSA key; Azure CLI unusable),    *)
(* NewAuthorizer returns that failure with a nil Authorizer, and no        *)
(* lower-precedence constructor is invoked, whatever else is enabled.      *)
C3_FailureIsReturned ==
    /\ (op = "NewAuthorizer" /\ CertSpecified(cfg) /\ world.file # "rsa") =>
          /\ ret.a = Nil /\ ret.err # Nil
          /\ Format(ret.err.cause) =
               (CASE world.file = "unreadable" -> "could not read pkcs12 store at %q: %s"
                  [] world.file = "undecodable" -> "could not decode pkcs12 credential store: %s"
                  [] world.file = "ecdsa" -> "unsupported non-rsa key was found in pkcs12 store %q")
          /\ ~Invoked("NewClientSecretAuthorizer")
          /\ ~Invoked("NewAzureCliAuthorizer")
          /\ ~Invoked("TokenSource")
    /\ (op = "NewAuthorizer" /\ Invoked("NewAzureCliAuthorizer") /\ world.cli = "unavailable") =>
          /\ ret.a = Nil /\ ret.err # Nil
          /\ ret.err.format = "could not configure AzureCli Authorizer: %s"

C3_Witness ==
    /\ op = "NewAuthorizer" /\ CertSpecified(cfg) /\ world.file = "ecdsa"
    /\ SecretSpecified(cfg) /\ cfg.EnableAzureCliToken /\ world.cli = "available"
    /\ ret.a = Nil /\ ret.err # Nil

(* C4: when no method is both enabled and sufficiently specified,          *)
(* NewAuthorizer returns a nil Authorizer with the error "no Authorizer    *)
(* could be configured, ..." and invokes no constructor.                   *)
C4_NothingConfigured ==
    ( /\ op = "NewAuthorizer"
      /\ ~CertSpecified(cfg) /\ ~SecretSpecified(cfg) /\ ~cfg.EnableAzureCliToken ) =>
        /\ ret.a = Nil
        /\ ret.err # Nil
        /\ ret.err.format = "no Authorizer could be configured, please check your configuration"
        /\ calls = <<>>

C4_Witness ==
    /\ op = "NewAuthorizer"
    /\ cfg.EnableClientCertAuth /\ cfg.EnableClientSecretAuth /\ ~cfg.EnableAzureCliToken
    /\ cfg.TenantID = <<" ">> /\ cfg.ClientID = <<"c">>
    /\ cfg.ClientCertPath = <<"p">> /\ cfg.ClientSecret = <<"s">>
    /\ ret.a = Nil /\ ret.err # Nil

(* C5: NewAuthorizer returns exactly one of a non-nil Authorizer and a     *)
(* non-nil error, whatever the constructors yield, a nil Authorizer        *)
(* without an error included.                                              *)
C5_AuthorizerXorError ==
    op = "NewAuthorizer" => ((ret.a = Nil) # (ret.err = Nil))

C5_Witness ==
    /\ op = "NewAuthorizer"
    /\ CertSpecified(cfg) /\ world.file = "rsa" /\ AuthTypeAssertion \in world.nilSource
    /\ SecretSpecified(cfg) /\ AuthTypeSecret \in world.nilSource
    /\ cfg.EnableAzureCliToken /\ world.cli = "available" /\ AuthTypeAzureCli \in world.nilSource
    /\ Len(calls) > 0 /\ calls[Len(calls)].fn = "TokenSource"
    /\ ret.a = Nil /\ ret.err # Nil

(* C6, as claimed: the token URL is adBase/T/oauth2[/v2.0]/token, where T  *)
(* is "common" when the tenant is blank, whitespace-only included, and the *)
(* tenant otherwise.                                                       *)
C6_Claimed_BlankTenantIsCommon ==
    AdapterReturned =>
        ret.a.conf.TokenURL =
            cfg.Environment.AzureADEndpoint \o "/"
              \o (IF Blank(cfg.TenantID) THEN "common" ELSE Str(cfg.TenantID))
              \o "/oauth2" \o V2Suffix \o "/token"

(* C6, amended: the token URL is adBase/T/oauth2[/v2.0]/token, where T is  *)
(* "common" only when the tenant is the empty string, and the tenant as    *)
(* given (untrimmed, whitespace-only included) otherwise.                  *)
C6_EmptyTenantIsCommon ==
    AdapterReturned =>
        ret.a.conf.TokenURL =
            cfg.Environment.AzureADEndpoint \o "/"
              \o (IF cfg.TenantID = <<>> THEN "common" ELSE Str(cfg.TenantID))
              \o "/oauth2" \o V2Suffix \o "/token"

C6_Witness ==
    /\ op = "NewClientSecretAuthorizer"
    /\ cfg.Environment = Global /\ cfg.TenantID = <<" ">> /\ cfg.Version = TokenVersion2
    /\ ret.a # Nil
    /\ ret.a.conf.TokenURL = "https://login.example/ /oauth2/v2.0/token"

(* C7: in the certificate and the secret adapter, the configuration has a  *)
(* Resource exactly when the token version is v1, and it is then the       *)
(* target API's endpoint followed by "/".                                  *)
C7_ResourceOnlyForV1 ==
    AdapterReturned =>
        /\ (ret.a.conf.Resource # "") <=> (cfg.Version = TokenVersion1)
        /\ cfg.Version = TokenVersion1 =>
              ret.a.conf.Resource = ApiEndpoint(cfg.Environment, api) \o "/"

C7_Witness ==
    /\ op = "NewClientCertificateAuthorizer"
    /\ cfg.Version = TokenVersion1 /\ api = AadGraph /\ cfg.Environment = Global
    /\ ret.a # Nil /\ ret.a.authType = AuthTypeAssertion
    /\ ret.a.conf.Resource = "https://aadgraph.example/"

(* C8: when the certificate method is not eligible and the secret method   *)
(* is, NewAuthorizer returns the secret adapter with the Config's ClientID *)
(* and ClientSecret, the one scope <api endpoint>/.default and the token   *)
(* URL of the Config's tenant and version; the Azure CLI constructor is    *)
(* not invoked.                                                            *)
C8_SecretAdapter ==
    (op = "NewAuthorizer" /\ ~CertSpecified(cfg) /\ SecretSpecified(cfg)) =>
        /\ ret.err = Nil /\ ret.a # Nil
        /\ ret.a.authType = AuthTypeSecret
        /\ ret.a.conf.ClientID = cfg.ClientID
        /\ ret.a.conf.ClientSecret = cfg.ClientSecret
        /\ ret.a.conf.Scopes = <<ApiEndpoint(cfg.Environment, api) \o "/.default">>
        /\ ret.a.conf.TokenURL =
             cfg.Environment.AzureADEndpoint \o "/" \o Str(cfg.TenantID)
               \o "/oauth2" \o V2Suffix \o "/token"
        /\ ~Invoked("NewAzureCliAuthorizer")
        /\ ~Invoked("NewClientCertificateAuthorizer")

C8_Witness ==
    /\ op = "NewAuthorizer"
    /\ ~cfg.EnableClientCertAuth /\ cfg.EnableClientSecretAuth /\ cfg.EnableAzureCliToken
    /\ cfg.Environment = Global /\ api = MsGraph /\ cfg.Version = TokenVersion2
    /\ cfg.TenantID = <<"t">> /\ cfg.ClientID = <<"c">> /\ cfg.ClientSecret = <<"s">>
    /\ ret.a # Nil
    /\ ret.a.conf.TokenURL = "https://login.example/t/oauth2/v2.0/token"
    /\ ret.a.conf.Scopes = <<"https://graph.example/.default">>

(* C9: when neither the certificate nor the secret method is eligible and  *)
(* EnableAzureCliToken is set, NewAuthorizer takes the Azure CLI method    *)
(* whatever the other fields hold, a blank TenantID included: the CLI      *)
(* constructor receives the Api target and TenantID only, and the outcome  *)
(* is the same for every token Version.                                    *)
C9_AzureCliFallback ==
    ( /\ op = "NewAuthorizer"
      /\ ~CertSpecified(cfg) /\ ~SecretSpecified(cfg) /\ cfg.EnableAzureCliToken ) =>
        /\ Len(calls) >= 2
        /\ calls[1].fn = "NewAzureCliAuthorizer"
        /\ calls[1].args = <<api, cfg.TenantID>>
        /\ calls[2].fn = "NewAzureCliConfig"
        /\ calls[2].args = <<api, cfg.TenantID>>
        /\ IF world.cli = "available"
           THEN /\ ret.err = Nil /\ ret.a # Nil
                /\ ret.a.authType = AuthTypeAzureCli
                /\ ret.a.conf = [Api |-> api, TenantID |-> cfg.TenantID]
           ELSE /\ ret.a = Nil /\ ret.err # Nil
                /\ ret.err.format = "could not configure AzureCli Authorizer: %s"
        /\ \A v \in Versions :
              Outcome(NewAuthorizer([cfg EXCEPT !.Version = v], api, world))
                = [ret |-> ret, calls |-> calls]

C9_Witness ==
    /\ op = "NewAuthorizer"
    /\ cfg.EnableClientCertAuth /\ cfg.EnableClientSecretAuth /\ cfg.EnableAzureCliToken
    /\ cfg.TenantID = <<>> /\ cfg.Version = TokenVersion1
    /\ ret.a # Nil /\ ret.a.authType = AuthTypeAzureCli

(* C10, as claimed: every error of a failed certificate construction       *)
(* (read failure, decode failure, non-RSA key) carries the certificate     *)
(* path and never the certificate password; no adapter is returned and     *)
(* the token source is not invoked.                                        *)
C10_Claimed_ErrorCarriesPath ==
    ( /\ op \in {"NewAuthorizer", "NewClientCertificateAuthorizer"}
      /\ Invoked("ioutil.ReadFile") /\ world.file # "rsa" ) =>
        /\ ret.a = Nil /\ ret.err # Nil
        /\ ~Invoked("TokenSource")
        /\ Carries(ret.err, cfg.ClientCertPath)
        /\ cfg.ClientCertPassword # <<>> => ~Carries(ret.err, cfg.ClientCertPassword)

====
